---------------------------- MODULE Spec2Model ----------------------------
(***************************************************************************)
(* Yahtzee scoring rules (Rules.js): the Rule base class with its helpers  *)
(* sum, freq and count, the six rule classes with their evalRoll, and the  *)
(* thirteen configured rule instances.                                     *)
(*                                                                         *)
(* A hand is the JavaScript array handed to evalRoll; a rule instance is   *)
(* the record of the own properties Object.assign copied onto it.  The     *)
(* outcome of a call is either a returned number or a thrown error.        *)
(***************************************************************************)
EXTENDS Integers, Sequences, FiniteSets, TLC

VARIABLES
    dice,      \* the array the caller holds and hands to evalRoll
    passed,    \* the array as the caller built it, before any call
    rules,     \* the thirteen rule instances: name -> own properties
    lastRule,  \* the rule evaluated by the latest call, "none" before any
    result     \* the outcome of the latest call

vars == <<dice, passed, rules, lastRule, result>>

-----------------------------------------------------------------------------
(* Sizes *)

\* a hand is five dice (the size a large straight and a yahtzee test for)
HandSize == 5

\* a die shows one of six faces
Faces == 6

\* largest value an out-of-range die takes in the malformed hands
BadMax == 7

-----------------------------------------------------------------------------
(* Outcomes of a call *)

Idle == [status |-> "idle"]

Returned(n) == [status |-> "returned", value |-> n]

Threw(e) == [status |-> "threw", error |-> e]

-----------------------------------------------------------------------------
(* Rule: the helpers shared by the rule classes *)

\* constructor: Object.assign(this, params) puts every property of params on
\* the instance; class records which subclass the instance was built from
Rule(class, params) == params @@ [class |-> class]

RECURSIVE sumFrom(_, _)
sumFrom(dice_, i) ==
    IF i > Len(dice_) THEN 0 ELSE dice_[i] + sumFrom(dice_, i + 1)

\* dice.reduce((prev, curr) => prev + curr): no initial value, so reduce
\* throws a TypeError on an empty array
sumThrows(dice_) == Len(dice_) = 0

sum(dice_) == sumFrom(dice_, 1)

\* the keys of the Map, in insertion order: each value where it is first seen
RECURSIVE freqKeys(_, _)
freqKeys(dice_, i) ==
    IF i > Len(dice_) THEN <<>>
    ELSE IF \E j \in 1..(i - 1) : dice_[j] = dice_[i]
         THEN freqKeys(dice_, i + 1)
         ELSE <<dice_[i]>> \o freqKeys(dice_, i + 1)

\* # times val appears in dice
count(dice_, val) == Cardinality({i \in DOMAIN dice_ : dice_[i] = val})

\* Array.from(freqs.values()): the counts, in the order of the keys
freq(dice_) ==
    LET keys == freqKeys(dice_, 1)
    IN  [k \in 1..Len(keys) |-> count(dice_, keys[k])]

\* new Set(dice)
SetOf(dice_) == {dice_[i] : i \in DOMAIN dice_}

-----------------------------------------------------------------------------
(* Array.prototype.sort() without a comparator: elements are ordered by    *)
(* their string conversions, compared by code units.                       *)

RECURSIVE NumberToString(_)
NumberToString(n) ==
    IF n < 10 THEN <<n>> ELSE NumberToString(n \div 10) \o <<n % 10>>

RECURSIVE StrLess(_, _)
StrLess(a, b) ==
    IF Len(b) = 0 THEN FALSE
    ELSE IF Len(a) = 0 THEN TRUE
    ELSE IF Head(a) # Head(b) THEN Head(a) < Head(b)
    ELSE StrLess(Tail(a), Tail(b))

RECURSIVE insertSorted(_, _)
insertSorted(x, arr) ==
    IF arr = <<>> THEN <<x>>
    ELSE IF StrLess(NumberToString(Head(arr)), NumberToString(x))
              \/ NumberToString(Head(arr)) = NumberToString(x)
         THEN <<Head(arr)>> \o insertSorted(x, Tail(arr))
         ELSE <<x>> \o arr

RECURSIVE sort(_)
sort(arr) ==
    IF arr = <<>> THEN <<>> ELSE insertSorted(Head(arr), sort(Tail(arr)))

-----------------------------------------------------------------------------
(* The rule classes: evalRoll of each, on the instance this and the array  *)

\* a slip: the count alone, not multiplied by the value
TotalOneNumberCountOnly(this, dice_) ==
    Returned(count(dice_, this.val))

\* return this.val * this.count(dice, this.val)
TotalOneNumberEvalRoll(this, dice_) ==
    Returned(this.val * count(dice_, this.val))

\* a slip: c > this.count, so exactly three (four) of a kind does not match
SumDistroStrict(this, dice_) ==
    LET f == freq(dice_)
    IN  IF \E k \in DOMAIN f : f[k] > this.count
        THEN IF sumThrows(dice_) THEN Threw("TypeError") ELSE Returned(sum(dice_))
        ELSE Returned(0)

\* a slip: c === this.count, so more of a kind than asked does not match
SumDistroExact(this, dice_) ==
    LET f == freq(dice_)
    IN  IF \E k \in DOMAIN f : f[k] = this.count
        THEN IF sumThrows(dice_) THEN Threw("TypeError") ELSE Returned(sum(dice_))
        ELSE Returned(0)

\* a slip: the sum taken before the test, so reduce runs on every array
SumDistroSumFirst(this, dice_) ==
    LET f == freq(dice_)
    IN  IF sumThrows(dice_) THEN Threw("TypeError")
        ELSE IF \E k \in DOMAIN f : f[k] >= this.count
        THEN Returned(sum(dice_))
        ELSE Returned(0)

\* return this.freq(dice).some((c) => c >= this.count) ? this.sum(dice) : 0
\* (this.count is the instance's own number, which shadows Rule.count)
SumDistroEvalRoll(this, dice_) ==
    LET f == freq(dice_)
    IN  IF \E k \in DOMAIN f : f[k] >= this.count
        THEN IF sumThrows(dice_) THEN Threw("TypeError") ELSE Returned(sum(dice_))
        ELSE Returned(0)

\* a slip: the frequencies left in first-seen order
FullHouseUnsorted(this, dice_) ==
    LET frqArr == freq(dice_)
    IN  IF /\ Len(frqArr) >= 1 /\ frqArr[1] = 2
           /\ Len(frqArr) >= 2 /\ frqArr[2] = 3
        THEN Returned(this.score)
        ELSE Returned(0)

\* frqArr = this.freq(dice).sort(); frqArr[0] === 2 && frqArr[1] === 3
\* (an index past the end reads undefined, which equals no number)
FullHouseEvalRoll(this, dice_) ==
    LET frqArr == sort(freq(dice_))
    IN  IF /\ Len(frqArr) >= 1 /\ frqArr[1] = 2
           /\ Len(frqArr) >= 2 /\ frqArr[2] = 3
        THEN Returned(this.score)
        ELSE Returned(0)

\* a slip: && for || in the flanking tests
SmallStraightNoFlank(this, dice_) ==
    LET d == SetOf(dice_)
    IN  IF 2 \in d /\ 3 \in d /\ 4 \in d /\ (1 \notin d /\ 5 \notin d)
        THEN Returned(this.score)
        ELSE IF 3 \in d /\ 4 \in d /\ 5 \in d /\ (2 \notin d /\ 6 \notin d)
        THEN Returned(this.score)
        ELSE Returned(0)

SmallStraightEvalRoll(this, dice_) ==
    LET d == SetOf(dice_)
    IN  IF 2 \in d /\ 3 \in d /\ 4 \in d /\ (1 \notin d \/ 5 \notin d)
        THEN Returned(this.score)
        ELSE IF 3 \in d /\ 4 \in d /\ 5 \in d /\ (2 \notin d \/ 6 \notin d)
        THEN Returned(this.score)
        ELSE Returned(0)

\* a slip: five different dice, the test on 1 and 6 left out
LargeStraightSizeOnly(this, dice_) ==
    LET d == SetOf(dice_)
    IN  IF Cardinality(d) = 5 THEN Returned(this.score) ELSE Returned(0)

\* return d.size === 5 && (!d.has(1) || !d.has(6)) ? this.score : 0
LargeStraightEvalRoll(this, dice_) ==
    LET d == SetOf(dice_)
    IN  IF Cardinality(d) = 5 /\ (1 \notin d \/ 6 \notin d)
        THEN Returned(this.score)
        ELSE Returned(0)

\* a slip: >= 4 for === 5
YahtzeeFourEnough(this, dice_) ==
    LET f == freq(dice_)
    IN  IF Len(f) >= 1 /\ f[1] >= 4 THEN Returned(this.score) ELSE Returned(0)

\* return this.freq(dice)[0] === 5 ? this.score : 0
YahtzeeEvalRoll(this, dice_) ==
    LET f == freq(dice_)
    IN  IF Len(f) >= 1 /\ f[1] = 5 THEN Returned(this.score) ELSE Returned(0)

\* a slip: FullHouse sorting its argument in place (dice.sort())
DiceSortedInPlace(this, dice_) ==
    IF this.class = "FullHouse" THEN sort(dice_) ELSE dice_

\* the array argument as a call leaves it: no evalRoll writes to dice
\* (FullHouse sorts the fresh array freq returned, not its argument)
DiceAfter(this, dice_) == dice_

-----------------------------------------------------------------------------
(* The thirteen rule instances *)

ones == Rule("TotalOneNumber", [val |-> 1])
twos == Rule("TotalOneNumber", [val |-> 2])
threes == Rule("TotalOneNumber", [val |-> 3])
fours == Rule("TotalOneNumber", [val |-> 4])
fives == Rule("TotalOneNumber", [val |-> 5])
sixes == Rule("TotalOneNumber", [val |-> 6])
threeOfKind == Rule("SumDistro", [count |-> 3])
fourOfKind == Rule("SumDistro", [count |-> 4])
fullHouse == Rule("FullHouse", [score |-> 25])
smallStraight == Rule("SmallStraight", [score |-> 30])
largeStraight == Rule("LargeStraight", [score |-> 40])
yahtzee == Rule("Yahtzee", [score |-> 50])
chance == Rule("SumDistro", [count |-> 0])

\* the module's exports, by name
Exports ==
    [ones |-> ones, twos |-> twos, threes |-> threes, fours |-> fours,
     fives |-> fives, sixes |-> sixes, threeOfKind |-> threeOfKind,
     fourOfKind |-> fourOfKind, fullHouse |-> fullHouse,
     smallStraight |-> smallStraight, largeStraight |-> largeStraight,
     yahtzee |-> yahtzee, chance |-> chance]

RuleNames == DOMAIN Exports

-----------------------------------------------------------------------------
(* Hands *)

\* five dice, each showing 1..6
Hands == [1..HandSize -> 1..Faces]

\* arrays that are not a hand: too short (down to empty), of the right length
\* with a value above 6, or one die too long
MalformedHands ==
    UNION {[1..n -> 1..BadMax] : n \in 0..(HandSize - 1)}
    \cup {h \in [1..HandSize -> 1..BadMax] : \E i \in 1..HandSize : h[i] > Faces}
    \cup [1..(HandSize + 1) -> {1, Faces}]

-----------------------------------------------------------------------------
(* State machine: the module is loaded, the caller holds an array, and     *)
(* calls evalRoll of the exported rules on it, any rule, any number of     *)
(* times.                                                                  *)

Loaded ==
    /\ rules = Exports
    /\ lastRule = "none"
    /\ result = Idle

Init ==
    /\ dice \in Hands
    /\ passed = dice
    /\ Loaded

InitMalformed ==
    /\ dice \in MalformedHands
    /\ passed = dice
    /\ Loaded

\* what every call leaves behind, whatever the class
Call(r, outcome) ==
    /\ result' = outcome
    /\ lastRule' = r
    /\ dice' = DiceAfter(rules[r], dice)
    /\ UNCHANGED <<rules, passed>>

TotalOneNumberCall(r) ==
    /\ rules[r].class = "TotalOneNumber"
    /\ Call(r, TotalOneNumberEvalRoll(rules[r], dice))

SumDistroCall(r) ==
    /\ rules[r].class = "SumDistro"
    /\ Call(r, SumDistroEvalRoll(rules[r], dice))

FullHouseCall(r) ==
    /\ rules[r].class = "FullHouse"
    /\ Call(r, FullHouseEvalRoll(rules[r], dice))

SmallStraightCall(r) ==
    /\ rules[r].class = "SmallStraight"
    /\ Call(r, SmallStraightEvalRoll(rules[r], dice))

LargeStraightCall(r) ==
    /\ rules[r].class = "LargeStraight"
    /\ Call(r, LargeStraightEvalRoll(rules[r], dice))

YahtzeeCall(r) ==
    /\ rules[r].class = "Yahtzee"
    /\ Call(r, YahtzeeEvalRoll(rules[r], dice))

Next ==
    \E r \in RuleNames :
        \/ TotalOneNumberCall(r)
        \/ SumDistroCall(r)
        \/ FullHouseCall(r)
        \/ SmallStraightCall(r)
        \/ LargeStraightCall(r)
        \/ YahtzeeCall(r)

Spec == Init /\ [][Next]_vars

SpecMalformed == InitMalformed /\ [][Next]_vars

-----------------------------------------------------------------------------
(* Reference notions the properties are stated in *)

\* evalRoll of an instance, by its class
EvalRoll(this, dice_) ==
    CASE this.class = "TotalOneNumber" -> TotalOneNumberEvalRoll(this, dice_)
      [] this.class = "SumDistro" -> SumDistroEvalRoll(this, dice_)
      [] this.class = "FullHouse" -> FullHouseEvalRoll(this, dice_)
      [] this.class = "SmallStraight" -> SmallStraightEvalRoll(this, dice_)
      [] this.class = "LargeStraight" -> LargeStraightEvalRoll(this, dice_)
      [] this.class = "Yahtzee" -> YahtzeeEvalRoll(this, dice_)

\* number of dice of hand h showing v
Occ(h, v) == Cardinality({i \in DOMAIN h : h[i] = v})

\* total of a hand of five dice
Total(h) == h[1] + h[2] + h[3] + h[4] + h[5]

\* the hand shows four consecutive values
HasRunOfFour(h) ==
    \E a \in 1..(Faces - 3) : \A k \in 0..3 : \E i \in DOMAIN h : h[i] = a + k

\* one value exactly twice and another exactly three times
IsFullHouse(h) ==
    \E a, b \in 1..Faces : a # b /\ Occ(h, a) = 2 /\ Occ(h, b) = 3

\* a permutation of 1..5 or of 2..6
IsLargeStraight(h) ==
    \/ \A v \in 1..5 : Occ(h, v) = 1
    \/ \A v \in 2..6 : Occ(h, v) = 1

AllSame(h) == \A i, j \in DOMAIN h : h[i] = h[j]

Called(r) == lastRule = r /\ result.status = "returned"

\* the face an upper-section rule is named for, the threshold a
\* distribution rule is named for
FaceOf ==
    [ones |-> 1, twos |-> 2, threes |-> 3, fours |-> 4, fives |-> 5, sixes |-> 6]

ThresholdOf == [threeOfKind |-> 3, fourOfKind |-> 4, chance |-> 0]

-----------------------------------------------------------------------------
(* C1: smallStraight returns 30 only for a hand whose distinct values      *)
(* include four consecutive values; a hand without such a run scores 0.    *)
C1_SmallStraightOnlyOnRun ==
    lastRule = "smallStraight" =>
        /\ result.status = "returned"
        /\ (result.value = 30 => HasRunOfFour(dice))
        /\ (~HasRunOfFour(dice) => result.value = 0)

(* C2: every hand whose distinct values include 1-2-3-4, 2-3-4-5 or        *)
(* 3-4-5-6 scores 30 under smallStraight; the flanking clauses never       *)
(* reject such a hand.                                                     *)
C2_SmallStraightOnEveryRun ==
    lastRule = "smallStraight" /\ HasRunOfFour(dice) => result = Returned(30)

\* a run of four flanked on both sides of 2-3-4 has been scored
C2_Witness ==
    /\ Called("smallStraight")
    /\ dice = <<5, 1, 4, 2, 3>>
    /\ result.value = 30

(* C3: fullHouse returns 25 exactly when one value appears exactly twice   *)
(* and another exactly three times, in any order of the dice, else 0.      *)
C3_FullHouseExact ==
    lastRule = "fullHouse" =>
        result = Returned(IF IsFullHouse(dice) THEN 25 ELSE 0)

\* a full house whose triple is seen first has been scored
C3_Witness ==
    /\ Called("fullHouse")
    /\ dice = <<3, 2, 3, 2, 3>>
    /\ result.value = 25

(* C4: largeStraight returns 40 exactly when the hand is a permutation of  *)
(* 1,2,3,4,5 or of 2,3,4,5,6, else 0.                                      *)
C4_LargeStraightExact ==
    lastRule = "largeStraight" =>
        result = Returned(IF IsLargeStraight(dice) THEN 40 ELSE 0)

\* a shuffled 2..6 has been scored 40
C4_Witness ==
    /\ Called("largeStraight")
    /\ dice = <<6, 2, 5, 3, 4>>
    /\ result.value = 40

(* C5: a SumDistro rule with threshold t (threeOfKind 3, fourOfKind 4,     *)
(* chance 0) returns the sum of the five dice if some value occurs at      *)
(* least t times and 0 otherwise; chance equals the sum for every hand.    *)
C5_SumDistroThreshold ==
    lastRule \in DOMAIN ThresholdOf =>
        /\ result =
             Returned(IF \E v \in 1..Faces : Occ(dice, v) >= ThresholdOf[lastRule]
                      THEN Total(dice) ELSE 0)
        /\ (lastRule = "chance" => result = Returned(Total(dice)))

\* exactly four of a kind has been scored by fourOfKind
C5_Witness ==
    /\ Called("fourOfKind")
    /\ dice = <<2, 2, 3, 2, 2>>
    /\ result.value = 11

(* C6: the upper-section rule for v returns v times the number of dice     *)
(* equal to v, 0 when v is absent.                                         *)
C6_UpperSection ==
    lastRule \in DOMAIN FaceOf =>
        result = Returned(FaceOf[lastRule] * Occ(dice, FaceOf[lastRule]))

\* two threes among other dice have been scored by threes
C6_Witness ==
    /\ Called("threes")
    /\ Occ(dice, 3) = 2
    /\ result.value = 6

(* C7: yahtzee returns 50 exactly when all five dice show the same value,  *)
(* else 0.                                                                 *)
C7_YahtzeeExact ==
    lastRule = "yahtzee" =>
        result = Returned(IF AllSame(dice) THEN 50 ELSE 0)

\* four fours and a five have been scored 0 by yahtzee
C7_Witness ==
    /\ Called("yahtzee")
    /\ dice = <<4, 4, 4, 4, 5>>
    /\ result.value = 0

(* C8: evaluating any rule on a malformed hand raises InvalidHandError     *)
(* and never returns a numeric score.                                      *)
C8_MalformedRaises ==
    lastRule # "none" => result = Threw("InvalidHandError")

(* C8, amended: evaluating any rule on a malformed hand raises no error,   *)
(* InvalidHandError or other: the call returns a numeric score >= 0.       *)
C8_MalformedReturns ==
    lastRule # "none" =>
        /\ result.status = "returned"
        /\ result.value \in Nat

\* five sevens have been scored 50 by yahtzee, and four dice summed by chance
C8_Witness ==
    \/ Called("yahtzee") /\ dice = <<7, 7, 7, 7, 7>> /\ result.value = 50
    \/ Called("chance") /\ dice = <<1, 2, 3, 4>> /\ result.value = 10

(* C9: after any sequence of evalRoll calls, each rule's parameters and    *)
(* the hand passed in (contents and order) are unchanged, and the score    *)
(* of the latest call is the one a first call would have returned.         *)
C9_NoEffect ==
    lastRule # "none" =>
        /\ rules = Exports
        /\ dice = passed
        /\ result = EvalRoll(Exports[lastRule], passed)

\* fullHouse has been evaluated on a hand that is not in sorted order
C9_Witness ==
    /\ Called("fullHouse")
    /\ passed = <<6, 2, 6, 2, 6>>
    /\ dice = passed
    /\ result.value = 25

(* C10: the distribution rules are monotone: a nonzero fourOfKind is also  *)
(* threeOfKind's score; a yahtzee of 50 makes both the hand's sum; and     *)
(* threeOfKind and fourOfKind are each 0 or equal to chance.               *)
C10_Monotone ==
    LET ScoreOf(r) == EvalRoll(rules[r], dice)
    IN  /\ lastRule = "fourOfKind" /\ result # Returned(0)
            => ScoreOf("threeOfKind") = result
        /\ lastRule = "yahtzee" /\ result = Returned(50)
            => /\ ScoreOf("fourOfKind") = Returned(Total(dice))
               /\ ScoreOf("threeOfKind") = Returned(Total(dice))
        /\ lastRule \in {"threeOfKind", "fourOfKind"}
            => result \in {Returned(0), ScoreOf("chance")}

\* a yahtzee has been scored 50 on a hand fourOfKind scores as its sum
C10_Witness ==
    /\ Called("yahtzee")
    /\ result.value = 50
    /\ dice = <<5, 5, 5, 5, 5>>
    /\ EvalRoll(rules["fourOfKind"], dice) = Returned(25)

=============================================================================
